---- MODULE Spec2Model ----
(***************************************************************************)
(* The bot-simulation engine of streamlit_app: one cycle of run_bots_once  *)
(* (helpers/bot_utils.py) over the Appwrite store, started from the        *)
(* Analysis page, and the Feed page's like buttons that write to the same  *)
(* store from another session.                                             *)
(***************************************************************************)
EXTENDS Integers, Sequences, FiniteSets, TLC

\* ---------------------------------------------------------------- bounds
MaxIters == 2         \* iterations of one cycle, over all its bots
MaxInitPosts == 2     \* posts in the store before the cycle
MaxInitLikes == 1     \* like count of a document that is in the store before the cycle
MaxFeedLikes == 2     \* like buttons pressed on the Feed page
MaxPublish == 2       \* posts published from the Feed page's form
MaxStore == 3         \* posts and comments in the store when another cycle may start
MaxSnapshots == 1     \* snapshots computed of one store that nothing writes to

\* create_post keeps the first 500 characters of the content
MAX_CONTENT == 500

\* ------------------------------------------------------------- the store
VARIABLES
    users,            \* users collection: user id -> popularityscore
    bots,             \* bots collection, in the order the store lists it
    posts,            \* posts collection; the document id is the index
    comments,         \* comments collection; the document id is the index
    OPENAI_API_KEY    \* config.OPENAI_API_KEY is set

\* ------------------------------------- the session running run_bots_once
VARIABLES
    pc,               \* where the cycle is
    exc,              \* the call whose exception left run_bots_once, or "none"
    bot_docs,         \* run_bots_once: the bots it listed
    important_people, \* run_bots_once: the ids find_important_people returned
    bot_ids,          \* run_bots_once: the ids of bot_docs
    bi,               \* index in bot_docs of the bot of the outer for loop
    it,               \* iterations of range(activity_count) already finished
    post,             \* the action's chosen post: [id, likes] as it read them
    pending,          \* the document the action is about to create
    todo,             \* run_reaction_bot: comments the for loop has yet to visit
    logs,             \* the list the log lines are appended to
    run_popularity_history, \* Analysis page: the snapshots of the current run
    totals            \* compute_popularity_snapshot: the dict it is filling

\* ------------------------------------------------ the Feed page's session
VARIABLES
    feed,             \* the like count the page rendered, and of which document
    feedLikes         \* like buttons pressed so far

\* ---------------------------------------------------- history (not code)
VARIABLES
    stats,            \* per bot of bot_docs: iterations and calls made for it
    drafts,           \* the posts handed to create_post so far, as they were written
    snap0,            \* posts and comments when the cycle started
    snapI,            \* posts, comments and Len(logs) when the iteration started
    sel               \* the find_important_people calls of the cycle and its last target

store == <<users, bots, posts, comments, OPENAI_API_KEY>>
frame == <<pc, exc, bot_docs, important_people, bot_ids, bi, it, post, pending, todo, logs,
           run_popularity_history, totals>>
feedv == <<feed, feedLikes>>
hist  == <<stats, drafts, snap0, snapI, sel>>
vars  == <<store, frame, feedv, hist>>

\* ----------------------------------------------------------- the values
None == "None"
UserIds == {"u1", "u2"}
BotIds == <<"b1", "b2">>
KnownTypes == {"post", "comment", "reaction"}
BotTypes == KnownTypes \cup {"other"}

\* Sequences over S of length at most n.
BSeq(S, n) == UNION {[1..k -> S] : k \in 0..n}

\* A text of n characters; the character at position i is i.
Content(n) == [i \in 1..n |-> i]

\* An activitylevel as the store holds it: an integer, no field at all, a null,
\* a text that is no number, or a text of digits.
IntLevel(n) == [kind |-> "int", val |-> n]
OtherLevel(k) == [kind |-> k, val |-> 0]
DigitsLevel(n) == [kind |-> "digits", val |-> n]
\* The levels the Bots page's slider gives, up to the bound.
ActivityLevels == {IntLevel(n) : n \in 1..MaxIters}
\* And the levels only a document written past the Bots page can hold.
AllLevels == ActivityLevels \cup {IntLevel(0), IntLevel(-1), DigitsLevel(1)}
                           \cup {OtherLevel(k) : k \in {"missing", "null", "text"}}

\* What the chat completion can give run_post_bot.
GenContents == {Content(0), Content(1), Content(MAX_CONTENT + 1)}

NoPost == [id |-> 0, likes |-> 0]
NoPending == [title |-> "", content |-> Content(0), imageurl |-> None]
NoFeed == [kind |-> "none", id |-> 0, likes |-> 0]
NoSnap == [posts |-> <<>>, comments |-> <<>>, nlogs |-> 0]
NoTotals == [stage |-> "idle", sums |-> <<>>]
NoSel == [resolves |-> 0, at |-> <<>>, target |-> None, seen |-> <<>>]
ZeroStats == [started |-> 0, done |-> 0, reads |-> 0, writes |-> 0, gens |-> 0]

Log(b, m, r, w) == [bot |-> b, msg |-> m, ref |-> r, who |-> w]

\* ------------------------------------------------- helpers/bot_utils.py
\* As int_activity, with 1 where int() raises.
int_activity_or_one(a) == IF a.kind \in {"int", "digits"} THEN a.val ELSE 1

\* int(activity) of run_bots_once: the integer, or 0 when int() raises
\* (TypeError for None, ValueError for a text that is no number); a missing
\* field is the default 0 of bot.get.
int_activity(a) == IF a.kind \in {"int", "digits"} THEN a.val ELSE 0

\* As activity_count, but the loop body runs once before the count is tested.
activity_count_at_least_once(bot) ==
    LET n == int_activity(bot.activitylevel) IN IF n > 0 THEN n ELSE 1

\* How many times range(activity_count) iterates.
activity_count(bot) ==
    LET n == int_activity(bot.activitylevel) IN IF n > 0 THEN n ELSE 0

\* As has_comment, with an empty comment taken for a comment.
has_comment_or_empty(comment) == TRUE

\* run_comment_bot's test of the generator's result: content_dict.get("comment")
\* is a text that is not empty.
has_comment(comment) == comment # Content(0)

\* As chat_available, without the test of the key.
chat_available_keyless(key) == TRUE

\* call_openai_chat gets as far as the request: `if not OPENAI_API_KEY:
\* return None` comes first.
chat_available(key) == key

\* As important_arg, with the users queried again at each call.
important_arg_fresh(snapshot, us) == {u \in DOMAIN us : us[u] = 1}

\* The important_people argument run_bots_once passes to each action: the
\* list it resolved before the loops.
important_arg(snapshot, us) == snapshot

\* As find_important_people, without the popularityscore query.
find_all_people(us) == DOMAIN us

find_important_people(us) == {u \in DOMAIN us : us[u] = 1}

\* As get_user_posts, without the userid query.
get_all_posts(ps, user_id) == DOMAIN ps

\* The ids of the posts list_documents returns for userid = user_id.
get_user_posts(ps, user_id) == {i \in DOMAIN ps : ps[i].userid = user_id}

\* As truncate, but keeping the last 500 characters.
truncate_tail(content) ==
    IF Len(content) > MAX_CONTENT
    THEN SubSeq(content, Len(content) - MAX_CONTENT + 1, Len(content))
    ELSE content

\* content[:500] when len(content) > 500.
truncate(content) ==
    IF Len(content) > MAX_CONTENT THEN SubSeq(content, 1, MAX_CONTENT) ELSE content

\* As create_post, with the likes of the new document set to 1.
create_post_one_like(ps, title, content, imageurl, user_id) ==
    Append(ps, [title |-> title,
                content |-> IF Len(content) > MAX_CONTENT
                            THEN SubSeq(content, 1, MAX_CONTENT) ELSE content,
                imageurl |-> imageurl, likes |-> 1, userid |-> user_id])

create_post(ps, title, content, imageurl, user_id) ==
    Append(ps, [title |-> title, content |-> truncate(content),
                imageurl |-> imageurl, likes |-> 0, userid |-> user_id])

\* As create_comment, writing over the last comment of the store.
create_comment_in_place(cs, content, post_id, user_id) ==
    LET doc == [content |-> content, postid |-> post_id, userid |-> user_id, likes |-> 0]
    IN  IF cs = <<>> THEN <<doc>> ELSE [cs EXCEPT ![Len(cs)] = doc]

create_comment(cs, content, post_id, user_id) ==
    Append(cs, [content |-> content, postid |-> post_id, userid |-> user_id, likes |-> 0])

\* As add_like_to_post, counting from 0 instead of from current_likes.
add_like_to_post_from_zero(ps, post_id, current_likes) ==
    [ps EXCEPT ![post_id].likes = 1]

add_like_to_post(ps, post_id, current_likes) ==
    [ps EXCEPT ![post_id].likes = current_likes + 1]

\* As add_like_to_comment, with an increment the store makes on its own count.
add_like_to_comment_atomic(cs, comment_id, current_likes) ==
    [cs EXCEPT ![comment_id].likes = @ + 1]

add_like_to_comment(cs, comment_id, current_likes) ==
    [cs EXCEPT ![comment_id].likes = current_likes + 1]

\* The comments of a post as list_documents returns them, in store order.
get_comments_for_post(cs, post_id) ==
    LET docs == [i \in 1..Len(cs) |->
                    [id |-> i, postid |-> cs[i].postid, userid |-> cs[i].userid,
                     likes |-> cs[i].likes]]
        OfPost(d) == d.postid = post_id
    IN  SelectSeq(docs, OfPost)

\* As liked_author, without the important users.
liked_author_bots_only(comment_user_id, ids, important) ==
    comment_user_id \in ids

\* run_reaction_bot's test of a comment's author.
liked_author(comment_user_id, ids, important) ==
    comment_user_id \in ids \/ comment_user_id \in important

\* The comments run_reaction_bot's for loop likes, in order.
comments_to_like(cs, ids, important) ==
    LET Liked(d) == liked_author(d.userid, ids, important) IN SelectSeq(cs, Liked)

\* The log line of an action that finds important_people empty: the words the
\* three actions share, and how each ends the line.
no_important_msg == "could not find any important people"
no_important_about(bottype) ==
    IF bottype = "post" THEN "to post about."
    ELSE IF bottype = "comment" THEN "to comment on."
    ELSE "to react to."

no_posts_msg(bottype) ==
    IF bottype = "post" THEN "found no posts by important user"
    ELSE IF bottype = "comment" THEN "found no posts by important user to comment on"
    ELSE "found no posts by important user to react to"

\* ------------------------------------------------------ pages/Analysis.py
\* As put_likes, with the likes written over the author's total.
put_likes_over(t, uid, likes) ==
    [a \in DOMAIN t \cup {uid} |-> IF a = uid THEN likes ELSE t[a]]

\* totals[uid] = totals.get(uid, 0) + likes
put_likes(t, uid, likes) ==
    [a \in DOMAIN t \cup {uid} |->
        IF a = uid THEN (IF uid \in DOMAIN t THEN t[uid] ELSE 0) + likes ELSE t[a]]

\* One for loop of compute_popularity_snapshot over the listed documents: a
\* document with no userid is passed over.
RECURSIVE sum_likes(_, _)
sum_likes(t, docs) ==
    IF docs = <<>> THEN t
    ELSE sum_likes(IF Head(docs).userid = None THEN t
                   ELSE put_likes(t, Head(docs).userid, Head(docs).likes),
                   Tail(docs))

\* snapshot_callback's new entry of run_popularity_history.
snapshot_entry(history, t) == Append(history, [step |-> Len(history), totals |-> t])

\* ------------------------------------------------------------------ Init
InitPost == [title : {"P"}, content : {Content(1)}, imageurl : {None},
             likes : {MaxInitLikes}, userid : UserIds]
InitComment(n) == [content : {Content(1)}, postid : 1..n,
                   userid : UserIds \cup {BotIds[1]}, likes : {MaxInitLikes}]
InitBot == [bottype : BotTypes, activitylevel : ActivityLevels]

WithIds(bs) == [i \in 1..Len(bs) |->
                  [id |-> BotIds[i], bottype |-> bs[i].bottype,
                   activitylevel |-> bs[i].activitylevel]]

\* The iterations a cycle over the bots bs makes.
RECURSIVE TotalActivity(_)
TotalActivity(bs) ==
    IF bs = <<>> THEN 0 ELSE activity_count(Head(bs)) + TotalActivity(Tail(bs))

\* The users are interchangeable: u2 is important only when u1 is.
InitUsers == {us \in [UserIds -> {0, 1}] : us["u2"] <= us["u1"]}

\* Nothing has run yet.
InitSessions ==
    /\ pc = "idle" /\ exc = "none"
    /\ bot_docs = <<>> /\ important_people = {} /\ bot_ids = {}
    /\ bi = 0 /\ it = 0
    /\ post = NoPost /\ pending = NoPending /\ todo = <<>>
    /\ logs = <<>>
    /\ run_popularity_history = <<>> /\ totals = NoTotals
    /\ feed = NoFeed /\ feedLikes = 0
    /\ stats = <<>> /\ drafts = <<>> /\ snap0 = NoSnap /\ snapI = NoSnap /\ sel = NoSel

\* The lists of at most Len(BotIds) bots over B that a cycle of at most
\* MaxIters iterations serves.
BotLists(B) ==
    {WithIds(bs) : bs \in {b \in BSeq(B, Len(BotIds)) : TotalActivity(b) <= MaxIters}}

Init ==
    /\ users \in InitUsers
    /\ bots \in BotLists(InitBot)
    /\ posts \in BSeq(InitPost, MaxInitPosts)
    /\ comments \in {<<>>} \cup {<<c>> : c \in InitComment(Len(posts))}
    /\ OPENAI_API_KEY \in BOOLEAN
    /\ InitSessions

\* A small store: u1 is important and has one post, u2 is not.
SmallStore ==
    /\ users = [u \in UserIds |-> IF u = "u1" THEN 1 ELSE 0]
    /\ posts = <<[title |-> "P", content |-> Content(1), imageurl |-> None,
                  likes |-> MaxInitLikes, userid |-> "u1"]>>
    /\ comments \in {<<>>} \cup {<<c>> : c \in InitComment(1)}
    /\ OPENAI_API_KEY \in BOOLEAN

\* The small store, and bots with every kind of activitylevel.
InitLevels ==
    /\ SmallStore
    /\ bots \in BotLists([bottype : BotTypes, activitylevel : AllLevels])
    /\ InitSessions

\* The small store, and bots with the levels of the Bots page.
InitPages ==
    /\ SmallStore
    /\ bots \in BotLists(InitBot)
    /\ InitSessions

\* No post yet.
InitPublish ==
    /\ users \in InitUsers
    /\ bots = <<>> /\ posts = <<>> /\ comments = <<>>
    /\ OPENAI_API_KEY \in BOOLEAN
    /\ InitSessions

\* u1 is the one registered user and has one post; u2 has yet to register.
InitLogin ==
    /\ users \in {[u \in {"u1"} |-> score] : score \in {0, 1}}
    /\ posts = <<[title |-> "P", content |-> Content(1), imageurl |-> None,
                  likes |-> MaxInitLikes, userid |-> "u1"]>>
    /\ comments \in {<<>>} \cup {<<c>> : c \in {d \in InitComment(1) : d.userid # "u2"}}
    /\ OPENAI_API_KEY \in BOOLEAN
    /\ bots \in BotLists(InitBot)
    /\ InitSessions

\* A store of posts and comments with any likes, for the popularity snapshot.
InitSnapshot ==
    /\ users \in InitUsers
    /\ bots = <<>>
    /\ posts \in BSeq([title : {"P"}, content : {Content(1)}, imageurl : {None},
                       likes : 0..MaxInitLikes, userid : UserIds \cup {BotIds[1]}],
                      MaxInitPosts)
    /\ comments \in {<<>>} \cup
                    {<<c>> : c \in [content : {Content(1)}, postid : 1..Len(posts),
                                    userid : UserIds \cup {BotIds[1]},
                                    likes : 0..MaxInitLikes]}
    /\ OPENAI_API_KEY = FALSE
    /\ InitSessions

\* ------------------------------------------------ steps of run_bots_once
Bot == bot_docs[bi]

\* The for loops are at an iteration of a bot whose bottype is in ts.
Iterating(ts) ==
    /\ pc = "loop"
    /\ bi <= Len(bot_docs)
    /\ it < activity_count(Bot)
    /\ Bot.bottype \in ts

Snapshot == [posts |-> posts, comments |-> comments, nlogs |-> Len(logs)]

\* As NextBot, with the last such bot instead of the first.
NextBot_last(docs, i) ==
    LET S == {j \in i..Len(docs) : activity_count(docs[j]) > 0}
    IN  IF S = {} THEN Len(docs) + 1 ELSE CHOOSE j \in S : \A k \in S : j >= k

\* The first bot of docs from index i on whose range(activity_count) is not
\* empty; Len(docs) + 1 when the outer for loop runs out.
NextBot(docs, i) ==
    LET S == {j \in i..Len(docs) : activity_count(docs[j]) > 0}
    IN  IF S = {} THEN Len(docs) + 1 ELSE CHOOSE j \in S : \A k \in S : j <= k

\* Where the for loops stand once iteration n of bot i is over.
AfterIteration(docs, i, n) ==
    IF n + 1 < activity_count(docs[i])
    THEN [bi |-> i, it |-> n + 1]
    ELSE [bi |-> NextBot(docs, i + 1), it |-> 0]

\* The loops run on, or run_bots_once returns.
LoopOrReturn(docs, i) == IF i > Len(docs) THEN "returned" ELSE "loop"

\* sel once random.choice has given the action its target_user.
Chosen(target_user) == [sel EXCEPT !.target = target_user, !.seen = users]

\* stats with the bot's counts raised: iterations started, store reads,
\* store writes, generator calls, iterations finished.
Count(s, r, w, g, d) ==
    [stats EXCEPT ![bi] = [started |-> @.started + s, done |-> @.done + d,
                           reads |-> @.reads + r, writes |-> @.writes + w,
                           gens |-> @.gens + g]]

\* As Say, keeping the last line only.
Say_latest(m, r, w) == <<Log(Bot.id, m, r, w)>>

Say(m, r, w) == Append(logs, Log(Bot.id, m, r, w))

\* An exception of the call op: nothing in run_bots_once catches it, so it
\* leaves run_bots_once and the loops with it.
Raise(op, st) ==
    /\ pc' = "raised"
    /\ exc' = op
    /\ stats' = st
    /\ UNCHANGED <<bot_docs, important_people, bot_ids, bi, it, post, pending, todo, logs>>
    /\ UNCHANGED <<run_popularity_history, totals>>

\* The action returns to the for loop of run_bots_once.
Finish(lg, st) ==
    /\ bi' = AfterIteration(bot_docs, bi, it).bi
    /\ it' = AfterIteration(bot_docs, bi, it).it
    /\ pc' = LoopOrReturn(bot_docs, bi')
    /\ logs' = lg
    /\ stats' = st
    /\ post' = NoPost /\ pending' = NoPending /\ todo' = <<>>
    /\ UNCHANGED <<exc, bot_docs, important_people, bot_ids>>
    /\ UNCHANGED <<run_popularity_history, totals>>

\* The action goes on to its next store call.
Goto(l, po, pe, td, lg, st) ==
    /\ pc' = l
    /\ post' = po /\ pending' = pe /\ todo' = td
    /\ logs' = lg
    /\ stats' = st
    /\ UNCHANGED <<exc, bot_docs, important_people, bot_ids, bi, it>>
    /\ UNCHANGED <<run_popularity_history, totals>>

\* Analysis page, "Run bots": the log is cleared and the cycle starts.
RunBots ==
    /\ pc = "idle"
    /\ pc' = "list_bots" /\ exc' = "none"
    /\ bot_docs' = <<>> /\ important_people' = {} /\ bot_ids' = {}
    /\ bi' = 0 /\ it' = 0
    /\ post' = NoPost /\ pending' = NoPending /\ todo' = <<>>
    /\ logs' = <<>>
    /\ run_popularity_history' = <<>> /\ totals' = NoTotals
    /\ stats' = <<>>
    /\ drafts' = <<>>
    /\ snap0' = [posts |-> posts, comments |-> comments, nlogs |-> 0]
    /\ snapI' = NoSnap
    /\ sel' = NoSel
    /\ UNCHANGED <<store, feedv>>

\* As ListBots, without the return when bot_docs is empty.
ListBots_on ==
    /\ pc = "list_bots"
    /\ UNCHANGED <<store, feedv, drafts, snap0, snapI, sel, run_popularity_history, totals>>
    /\ \/ /\ pc' = "raised" /\ exc' = "list_documents"
          /\ UNCHANGED <<bot_docs, important_people, bot_ids, bi, it, post, pending,
                         todo, logs, stats>>
       \/ /\ bot_docs' = bots
          /\ stats' = [i \in 1..Len(bots) |-> ZeroStats]
          /\ logs' = logs
          /\ pc' = "important"
          /\ UNCHANGED <<exc, important_people, bot_ids, bi, it, post, pending, todo>>

\* bot_docs = list_documents(BOTS_COLLECTION_ID), and the return when it is empty.
ListBots ==
    /\ pc = "list_bots"
    /\ UNCHANGED <<store, feedv, drafts, snap0, snapI, sel, run_popularity_history, totals>>
    /\ \/ /\ pc' = "raised" /\ exc' = "list_documents"
          /\ UNCHANGED <<bot_docs, important_people, bot_ids, bi, it, post, pending,
                         todo, logs, stats>>
       \/ /\ bot_docs' = bots
          /\ stats' = [i \in 1..Len(bots) |-> ZeroStats]
          /\ IF bots = <<>>
             THEN /\ logs' = Append(logs, Log("", "No bots found in the database.", 0, ""))
                  /\ pc' = "returned"
             ELSE /\ logs' = logs
                  /\ pc' = "important"
          /\ UNCHANGED <<exc, important_people, bot_ids, bi, it, post, pending, todo>>

\* important_people = find_important_people(), then bot_ids.
FindImportant ==
    /\ pc = "important"
    /\ UNCHANGED <<store, feedv, drafts, snap0, snapI, run_popularity_history, totals>>
    /\ \/ /\ pc' = "raised" /\ exc' = "find_important_people"
          /\ UNCHANGED <<bot_docs, important_people, bot_ids, bi, it, post, pending,
                         todo, logs, stats, sel>>
       \/ /\ important_people' = find_important_people(users)
          /\ sel' = [sel EXCEPT !.resolves = @ + 1, !.at = users]
          /\ bot_ids' = {bot_docs[i].id : i \in 1..Len(bot_docs)}
          /\ bi' = NextBot(bot_docs, 1) /\ it' = 0
          /\ pc' = LoopOrReturn(bot_docs, bi')
          /\ UNCHANGED <<exc, bot_docs, post, pending, todo, logs, stats>>

\* As UnknownType, with the else branch writing no log line.
UnknownType_silent ==
    /\ Iterating(BotTypes \ KnownTypes)
    /\ snapI' = Snapshot
    /\ Finish(logs, Count(1, 0, 0, 0, 1))
    /\ UNCHANGED <<store, feedv, snap0, sel>>
    /\ UNCHANGED drafts

\* The else branch of the dispatch: one log line.
UnknownType ==
    /\ Iterating(BotTypes \ KnownTypes)
    /\ snapI' = Snapshot
    /\ Finish(Say("has unknown type", 0, Bot.bottype), Count(1, 0, 0, 0, 1))
    /\ UNCHANGED <<store, feedv, snap0, sel>>
    /\ UNCHANGED drafts

\* --------------------------------------------------------- run_post_bot
\* What call_openai_image and upload_image_from_url can come to: no url, an
\* uploaded file, an upload that raises (caught and logged), or an exception
\* of call_openai_image itself.
ImageOutcomes == {"none", "uploaded", "upload failed", "raised"}

\* The image outcomes drawn for a content: `if content:` makes no image for an
\* empty content; the overlong content is drawn with no image, create_post
\* cutting the content whatever the image is.
ImagesFor(content) ==
    IF content = Content(0) \/ Len(content) > MAX_CONTENT THEN {"none"} ELSE ImageOutcomes

\* The draft run_post_bot hands to create_post, and the history of it.
Draft(content, img) ==
    [by |-> Bot.id, title |-> "T", content |-> content, image |-> img]

\* run_post_bot from its first line to the call of create_post.
PostBotRead ==
    /\ Iterating({"post"})
    /\ snapI' = Snapshot
    /\ UNCHANGED <<store, feedv, snap0>>
    /\ IF important_arg(important_people, users) = {}
       THEN /\ Finish(Say(no_important_msg, 0, no_important_about("post")),
                      Count(1, 0, 0, 0, 1))
            /\ UNCHANGED <<drafts, sel>>
       ELSE \E target_user \in important_arg(important_people, users) :
           /\ sel' = Chosen(target_user)
           /\ \/ /\ Raise("get_user_posts", Count(1, 1, 0, 0, 0))
                 /\ UNCHANGED drafts
              \/ /\ get_user_posts(posts, target_user) = {}
                 /\ Finish(Say(no_posts_msg("post"), 0, target_user), Count(1, 1, 0, 0, 1))
                 /\ UNCHANGED drafts
              \/ /\ get_user_posts(posts, target_user) # {}
                 /\ \/ /\ Finish(Say("could not generate a post via ChatGPT.", 0, ""),
                                 Count(1, 1, 0, 1, 1))
                       /\ UNCHANGED drafts
                    \/ /\ chat_available(OPENAI_API_KEY)
                       /\ Raise("generate_post_using_chatgpt", Count(1, 1, 0, 1, 0))
                       /\ UNCHANGED drafts
                    \/ /\ chat_available(OPENAI_API_KEY)
                       /\ \E content \in GenContents :
                          \E img \in ImagesFor(content) :
                            LET g == IF content = Content(0) THEN 1 ELSE 2 IN
                               IF img = "raised"
                               THEN /\ Raise("call_openai_image", Count(1, 1, 0, g, 0))
                                    /\ UNCHANGED drafts
                               ELSE /\ drafts' = Append(drafts, Draft(content, img))
                                    /\ Goto("create_post", NoPost,
                                            [title |-> "T", content |-> content,
                                             imageurl |-> IF img = "uploaded"
                                                          THEN "file" ELSE None],
                                            <<>>,
                                            IF img = "upload failed"
                                            THEN Say("failed to upload image", 0, "")
                                            ELSE logs,
                                            Count(1, 1, 0, g, 0))

\* create_post(title, content, image_file_id, bot id) and the last log line.
PostBotCreate ==
    /\ pc = "create_post"
    /\ UNCHANGED <<users, bots, comments, OPENAI_API_KEY, feedv, drafts, snap0, snapI, sel>>
    /\ \/ /\ Raise("create_post", Count(0, 0, 1, 0, 0))
          /\ UNCHANGED posts
       \/ /\ posts' = create_post(posts, pending.title, pending.content,
                                  pending.imageurl, Bot.id)
          /\ Finish(Say("posted a new message titled", 0, pending.title),
                    Count(0, 0, 1, 0, 1))

\* ------------------------------------------------------ run_comment_bot
GenComments == {Content(0), Content(2)}

\* run_comment_bot from its first line to the call of create_comment.
CommentBotRead ==
    /\ Iterating({"comment"})
    /\ snapI' = Snapshot
    /\ UNCHANGED <<store, feedv, snap0>>
    /\ UNCHANGED drafts
    /\ IF important_arg(important_people, users) = {}
       THEN /\ Finish(Say(no_important_msg, 0, no_important_about("comment")),
                      Count(1, 0, 0, 0, 1))
            /\ UNCHANGED sel
       ELSE \E target_user \in important_arg(important_people, users) :
           /\ sel' = Chosen(target_user)
           /\ \/ Raise("get_user_posts", Count(1, 1, 0, 0, 0))
              \/ /\ get_user_posts(posts, target_user) = {}
                 /\ Finish(Say(no_posts_msg("comment"), 0, target_user),
                           Count(1, 1, 0, 0, 1))
              \/ \E p \in get_user_posts(posts, target_user) :
                    \/ Finish(Say("could not generate a comment via ChatGPT.", 0, ""),
                              Count(1, 1, 0, 1, 1))
                    \/ /\ chat_available(OPENAI_API_KEY)
                       /\ Raise("generate_comment_using_chatgpt", Count(1, 1, 0, 1, 0))
                    \/ /\ chat_available(OPENAI_API_KEY)
                       /\ \E comment \in GenComments :
                            /\ has_comment(comment)
                            /\ Goto("create_comment", [id |-> p, likes |-> posts[p].likes],
                                    [title |-> "", content |-> comment, imageurl |-> None],
                                    <<>>, logs, Count(1, 1, 0, 1, 0))

\* As CommentBotCreate, liking the post it comments on.
CommentBotCreate_liking ==
    /\ pc = "create_comment"
    /\ UNCHANGED <<users, bots, OPENAI_API_KEY, feedv, drafts, snap0, snapI, sel>>
    /\ \/ /\ Raise("create_comment", Count(0, 0, 1, 0, 0))
          /\ UNCHANGED <<posts, comments>>
       \/ /\ comments' = create_comment(comments, pending.content, post.id, Bot.id)
          /\ posts' = add_like_to_post(posts, post.id, posts[post.id].likes)
          /\ Finish(Say("commented on post", post.id, ""), Count(0, 0, 1, 0, 1))

\* create_comment(comment, post id, bot id) and the last log line.
CommentBotCreate ==
    /\ pc = "create_comment"
    /\ UNCHANGED <<users, bots, posts, OPENAI_API_KEY, feedv, drafts, snap0, snapI, sel>>
    /\ \/ /\ Raise("create_comment", Count(0, 0, 1, 0, 0))
          /\ UNCHANGED comments
       \/ /\ comments' = create_comment(comments, pending.content, post.id, Bot.id)
          /\ Finish(Say("commented on post", post.id, ""), Count(0, 0, 1, 0, 1))

\* ----------------------------------------------------- run_reaction_bot
\* run_reaction_bot from its first line to the call of add_like_to_post.
ReactionBotRead ==
    /\ Iterating({"reaction"})
    /\ snapI' = Snapshot
    /\ UNCHANGED <<store, feedv, snap0>>
    /\ UNCHANGED drafts
    /\ IF important_arg(important_people, users) = {}
       THEN /\ Finish(Say(no_important_msg, 0, no_important_about("reaction")),
                      Count(1, 0, 0, 0, 1))
            /\ UNCHANGED sel
       ELSE \E target_user \in important_arg(important_people, users) :
           /\ sel' = Chosen(target_user)
           /\ \/ Raise("get_user_posts", Count(1, 1, 0, 0, 0))
              \/ /\ get_user_posts(posts, target_user) = {}
                 /\ Finish(Say(no_posts_msg("reaction"), 0, target_user),
                           Count(1, 1, 0, 0, 1))
              \/ \E p \in get_user_posts(posts, target_user) :
                    Goto("like_post", [id |-> p, likes |-> posts[p].likes], NoPending,
                         <<>>, logs, Count(1, 1, 0, 0, 0))

\* add_like_to_post(post_id, current_likes) and its log line.
\* As ReactionLikePost, liking the first post of the store.
ReactionLikePost_first ==
    /\ pc = "like_post"
    /\ UNCHANGED <<users, bots, comments, OPENAI_API_KEY, feedv, drafts, snap0, snapI, sel>>
    /\ \/ /\ Raise("add_like_to_post", Count(0, 0, 1, 0, 0))
          /\ UNCHANGED posts
       \/ /\ posts' = add_like_to_post(posts, 1, posts[1].likes)
          /\ Goto("get_comments", [id |-> 1, likes |-> posts[1].likes], pending, todo,
                  Say("liked post", 1, ""), Count(0, 0, 1, 0, 0))

ReactionLikePost ==
    /\ pc = "like_post"
    /\ UNCHANGED <<users, bots, comments, OPENAI_API_KEY, feedv, drafts, snap0, snapI, sel>>
    /\ \/ /\ Raise("add_like_to_post", Count(0, 0, 1, 0, 0))
          /\ UNCHANGED posts
       \/ /\ posts' = add_like_to_post(posts, post.id, post.likes)
          /\ Goto("get_comments", post, pending, todo, Say("liked post", post.id, ""),
                  Count(0, 0, 1, 0, 0))

\* comments = get_comments_for_post(post_id); the for loop starts.
ReactionGetComments ==
    /\ pc = "get_comments"
    /\ UNCHANGED <<store, feedv, drafts, snap0, snapI, sel>>
    /\ \/ Raise("get_comments_for_post", Count(0, 1, 0, 0, 0))
       \/ LET cs == comments_to_like(get_comments_for_post(comments, post.id),
                                     bot_ids, important_arg(important_people, users))
          IN  IF cs = <<>>
              THEN Finish(logs, Count(0, 1, 0, 0, 1))
              ELSE Goto("like_comments", post, pending, cs, logs, Count(0, 1, 0, 0, 0))

\* As ReactionLikeComment, with no log line for the like.
ReactionLikeComment_unlogged ==
    /\ pc = "like_comments"
    /\ UNCHANGED <<users, bots, posts, OPENAI_API_KEY, feedv, drafts, snap0, snapI, sel>>
    /\ LET comment == Head(todo) IN
       \/ /\ Raise("add_like_to_comment", Count(0, 0, 1, 0, 0))
          /\ UNCHANGED comments
       \/ /\ comments' = add_like_to_comment(comments, comment.id, comment.likes)
          /\ IF Tail(todo) = <<>>
             THEN Finish(logs, Count(0, 0, 1, 0, 1))
             ELSE Goto("like_comments", post, pending, Tail(todo), logs,
                       Count(0, 0, 1, 0, 0))

\* add_like_to_comment for the next comment by a bot or an important user.
ReactionLikeComment ==
    /\ pc = "like_comments"
    /\ UNCHANGED <<users, bots, posts, OPENAI_API_KEY, feedv, drafts, snap0, snapI, sel>>
    /\ LET comment == Head(todo) IN
       \/ /\ Raise("add_like_to_comment", Count(0, 0, 1, 0, 0))
          /\ UNCHANGED comments
       \/ /\ comments' = add_like_to_comment(comments, comment.id, comment.likes)
          /\ IF Tail(todo) = <<>>
             THEN Finish(Say("liked comment", comment.id, comment.userid),
                         Count(0, 0, 1, 0, 1))
             ELSE Goto("like_comments", post, pending, Tail(todo),
                       Say("liked comment", comment.id, comment.userid),
                       Count(0, 0, 1, 0, 0))

\* ------------------------------------------------------ specifications
Cycle ==
    \/ RunBots \/ ListBots \/ FindImportant \/ UnknownType
    \/ PostBotRead \/ PostBotCreate
    \/ CommentBotRead \/ CommentBotCreate
    \/ ReactionBotRead \/ ReactionLikePost \/ ReactionGetComments \/ ReactionLikeComment

Next == Cycle

\* The engine alone: one cycle of run_bots_once and no other writer of the store.
Spec == Init /\ [][Next]_vars

\* The same, over bots whose activitylevel is any value the store can hold.
SpecLevels == InitLevels /\ [][Next]_vars

\* ------------------------------------------------------ pages/Feed.py
\* The page is rendered: it lists the posts, and likes is what the post holds.
FeedReadPost ==
    /\ feed = NoFeed
    /\ feedLikes < MaxFeedLikes
    /\ \E p \in 1..Len(posts) : feed' = [kind |-> "post", id |-> p, likes |-> posts[p].likes]
    /\ UNCHANGED <<store, frame, feedLikes, hist>>

\* "Like post": add_like_to_post(post_id, likes); an exception is shown, not raised.
FeedLikePost ==
    /\ feed.kind = "post"
    /\ \/ posts' = add_like_to_post(posts, feed.id, feed.likes)
       \/ UNCHANGED posts
    /\ feed' = NoFeed
    /\ feedLikes' = feedLikes + 1
    /\ UNCHANGED <<users, bots, comments, OPENAI_API_KEY, frame, hist>>

\* The page lists a post's comments, and comment_likes is what the comment holds.
FeedReadComment ==
    /\ feed = NoFeed
    /\ feedLikes < MaxFeedLikes
    /\ \E c \in 1..Len(comments) :
          feed' = [kind |-> "comment", id |-> c, likes |-> comments[c].likes]
    /\ UNCHANGED <<store, frame, feedLikes, hist>>

\* "Like comment": add_like_to_comment(comment_id, comment_likes).
FeedLikeComment ==
    /\ feed.kind = "comment"
    /\ \/ comments' = add_like_to_comment(comments, feed.id, feed.likes)
       \/ UNCHANGED comments
    /\ feed' = NoFeed
    /\ feedLikes' = feedLikes + 1
    /\ UNCHANGED <<users, bots, posts, OPENAI_API_KEY, frame, hist>>

\* The texts the form's content field is given.
PublishContents ==
    {Content(n) : n \in {1, MAX_CONTENT - 1, MAX_CONTENT, MAX_CONTENT + 1, MAX_CONTENT + 100}}

\* "Publish post": the optional upload, then create_post(title, content, file, user).
FeedPublish ==
    /\ Len(drafts) < MaxPublish
    /\ \E user \in DOMAIN users, new_content \in PublishContents,
          img \in {"none", "uploaded", "upload failed"} :
          /\ drafts' = Append(drafts, [by |-> user, title |-> "T",
                                       content |-> new_content, image |-> img])
          /\ posts' = create_post(posts, "T", new_content,
                                  IF img = "uploaded" THEN "file" ELSE None, user)
    /\ UNCHANGED <<users, bots, comments, OPENAI_API_KEY, frame, feedv, stats, snap0, snapI, sel>>

\* compute_popularity_snapshot, the posts: list_documents and the first loop.
SnapshotPosts ==
    /\ totals.stage = "idle"
    /\ totals' = [stage |-> "comments", sums |-> sum_likes(<<>>, posts)]
    /\ UNCHANGED <<store, pc, exc, bot_docs, important_people, bot_ids, bi, it, post,
                   pending, todo, logs, run_popularity_history, feedv, hist>>

\* compute_popularity_snapshot, the comments: list_documents and the second
\* loop; snapshot_callback then appends the totals to the history.
SnapshotComments ==
    /\ totals.stage = "comments"
    /\ run_popularity_history' =
          snapshot_entry(run_popularity_history, sum_likes(totals.sums, comments))
    /\ totals' = NoTotals
    /\ UNCHANGED <<store, pc, exc, bot_docs, important_people, bot_ids, bi, it, post,
                   pending, todo, logs, feedv, hist>>

\* Login page, "Login / Register" with an email no user has: a new user
\* document with the popularity score chosen on the form.
LoginRegister ==
    /\ \E user \in UserIds \ DOMAIN users, popularity \in {0, 1} :
          users' = [u \in DOMAIN users \cup {user} |->
                       IF u = user THEN popularity ELSE users[u]]
    /\ UNCHANGED <<bots, posts, comments, OPENAI_API_KEY, frame, feedv, hist>>

FeedLikes == FeedReadPost \/ FeedLikePost \/ FeedReadComment \/ FeedLikeComment

NextPages == Cycle \/ FeedLikes

\* The cycle, and a Feed page in another session that likes while it runs.
SpecPages == InitPages /\ [][NextPages]_vars

\* The small store, and reaction bots only.
InitLikes ==
    /\ SmallStore
    /\ bots \in BotLists([bottype : {"reaction"}, activitylevel : ActivityLevels])
    /\ InitSessions

\* The cycle of reaction bots, and a Feed page in another session that likes
\* while it runs.
NextLikes ==
    \/ RunBots \/ ListBots \/ FindImportant
    \/ ReactionBotRead \/ ReactionLikePost \/ ReactionGetComments \/ ReactionLikeComment
    \/ FeedLikes
SpecLikes == InitLikes /\ [][NextLikes]_vars

\* The Feed page's form alone.
SpecPublish == InitPublish /\ [][FeedPublish]_vars

\* The popularity snapshot of a store that nothing writes to.
NextSnapshot ==
    /\ Len(run_popularity_history) < MaxSnapshots
    /\ (SnapshotPosts \/ SnapshotComments)
SpecSnapshot == InitSnapshot /\ [][NextSnapshot]_vars

\* The cycle, and a Login page in another session that registers a user while
\* it runs.
NextLogin == Cycle \/ LoginRegister
SpecLogin == InitLogin /\ [][NextLogin]_vars

\* As Rerun, in a process that keeps the lists of the cycle before: the log
\* is cleared and the loops start over bot_docs and important_people as they are.
Rerun_resident ==
    /\ pc \in {"returned", "raised"}
    /\ Len(posts) + Len(comments) < MaxStore
    /\ \A k \in DOMAIN posts : posts[k].likes <= MaxInitLikes
    /\ \A k \in DOMAIN comments : comments[k].likes <= MaxInitLikes
    /\ bi' = NextBot(bot_docs, 1) /\ it' = 0
    /\ pc' = LoopOrReturn(bot_docs, bi')
    /\ exc' = "none" /\ logs' = <<>>
    /\ post' = NoPost /\ pending' = NoPending /\ todo' = <<>>
    /\ stats' = [i \in 1..Len(bot_docs) |-> ZeroStats]
    /\ drafts' = <<>>
    /\ snap0' = [posts |-> posts, comments |-> comments, nlogs |-> 0]
    /\ snapI' = NoSnap
    /\ UNCHANGED <<store, bot_docs, important_people, bot_ids, run_popularity_history,
                   totals, feedv, sel>>

\* Analysis page, a later click of "Run bots": the script runs again once
\* run_bots_once has returned or raised.
Rerun ==
    /\ pc \in {"returned", "raised"}
    /\ Len(posts) + Len(comments) < MaxStore
    /\ \A k \in DOMAIN posts : posts[k].likes <= MaxInitLikes
    /\ \A k \in DOMAIN comments : comments[k].likes <= MaxInitLikes
    /\ pc' = "idle"
    /\ UNCHANGED <<store, exc, bot_docs, important_people, bot_ids, bi, it, post, pending,
                   todo, logs, run_popularity_history, totals, feedv, hist>>

\* One cycle after another over the same bots.
NextCycles == Cycle \/ Rerun
SpecCycles == InitPages /\ [][NextCycles]_vars

\* As FeedComment, with the id of a post the store does not hold.
FeedComment_unlisted ==
    /\ \A c \in DOMAIN comments : comments[c].content # Content(3)
    /\ \E user \in DOMAIN users :
          comments' = create_comment(comments, Content(3), Len(posts) + 1, user)
    /\ UNCHANGED <<users, bots, posts, OPENAI_API_KEY, frame, feedv, hist>>

\* Feed page, "Add comment to" under a post the page lists, with a text in
\* the field: create_comment(new_comment, post_id, user).
FeedComment ==
    /\ \A c \in DOMAIN comments : comments[c].content # Content(3)
    /\ \E user \in DOMAIN users, post_id \in DOMAIN posts :
          comments' = create_comment(comments, Content(3), post_id, user)
    /\ UNCHANGED <<users, bots, posts, OPENAI_API_KEY, frame, feedv, hist>>

\* The cycle, and a Feed page in another session that adds its one comment
\* while it runs.
NextComments == Cycle \/ FeedComment
SpecComments == InitPages /\ [][NextComments]_vars

\* Bots page, "Create bot": a bot document of the type and the level of the
\* form, while a cycle over the bots makes MaxIters iterations at most.
BotsCreate ==
    /\ Len(bots) < Len(BotIds)
    /\ \E bottype \in KnownTypes, activity \in 1..MaxIters :
          /\ TotalActivity(bots) + activity <= MaxIters
          /\ bots' = Append(bots, [id |-> BotIds[Len(bots) + 1], bottype |-> bottype,
                                   activitylevel |-> IntLevel(activity)])
    /\ UNCHANGED <<users, posts, comments, OPENAI_API_KEY, frame, feedv, hist>>

\* u1 is the one registered user and has one post; there is one bot, or none.
InitFresh ==
    /\ users \in {[u \in {"u1"} |-> score] : score \in {0, 1}}
    /\ posts = <<[title |-> "P", content |-> Content(1), imageurl |-> None,
                  likes |-> MaxInitLikes, userid |-> "u1"]>>
    /\ comments = <<>>
    /\ OPENAI_API_KEY \in BOOLEAN
    /\ bots \in {bs \in BotLists(InitBot) : Len(bs) <= 1}
    /\ InitSessions

\* One cycle after another; between two cycles the Bots page creates a bot
\* or the Login page registers a user, and the next cycle is started once
\* the store has a bot the cycle before did not list.
NextFresh ==
    \/ Cycle
    \/ Len(bots) > Len(bot_docs) /\ Rerun
    \/ pc \in {"returned", "raised"} /\ BotsCreate
    \/ pc \in {"returned", "raised"} /\ LoginRegister
SpecFresh == InitFresh /\ [][NextFresh]_vars

\* ------------------------------------------------------------ properties
\* The store's important users and bot ids, read off the store itself.
Important == {u \in DOMAIN users : users[u] = 1}
StoreBotIds == {bots[i].id : i \in 1..Len(bots)}

\* The positions of the log lines written for bot b.
LogsOf(b) == {k \in 1..Len(logs) : logs[k].bot = b}

\* The calls an iteration makes.
IterationCalls ==
    {"get_user_posts", "generate_post_using_chatgpt", "call_openai_image", "create_post",
     "generate_comment_using_chatgpt", "create_comment", "add_like_to_post",
     "get_comments_for_post", "add_like_to_comment"}

\* ------------------------------------------ run_bots_once_callback
\* The bots of bot_docs whose iterations are all over.
BotsDone ==
    IF pc = "returned" THEN Len(bot_docs)
    ELSE IF pc \in {"idle", "list_bots", "important"} THEN 0 ELSE bi - 1

\* As SnapshotDue, with the snapshot sink never called.
SnapshotNeverDue == FALSE

\* The dispatcher is between two bots, or past the last one, and has yet to
\* call the snapshot sink for the bot it has just finished.
SnapshotDue ==
    /\ pc \in {"loop", "returned"}
    /\ Len(run_popularity_history) < BotsDone

\* The boundary of an iteration: the exception of a store or generator call
\* is logged through the log sink and the loops go on.
CatchAtBoundary ==
    /\ pc = "raised"
    /\ exc \in IterationCalls
    /\ exc' = "none"
    /\ bi' = AfterIteration(bot_docs, bi, it).bi
    /\ it' = AfterIteration(bot_docs, bi, it).it
    /\ pc' = LoopOrReturn(bot_docs, bi')
    /\ logs' = Say("failed", 0, exc)
    /\ post' = NoPost /\ pending' = NoPending /\ todo' = <<>>
    /\ UNCHANGED <<store, bot_docs, important_people, bot_ids, run_popularity_history,
                   totals, feedv, hist>>

\* The cycle with its two sinks: the steps of the dispatcher, and the snapshot
\* sink once each bot's iterations are over.
NextCallback ==
    \/ ~SnapshotDue /\ Cycle
    \/ CatchAtBoundary
    \/ SnapshotDue /\ (SnapshotPosts \/ SnapshotComments)
SpecCallback == InitPages /\ [][NextCallback]_vars

\* C1: when a store or generator call raises inside an iteration, only that
\* iteration is lost: once the cycle is over, every bot of the cycle has had
\* as many iterations as its activitylevel says.
C1_FailedIterationSkipped ==
    (pc \in {"returned", "raised"} /\ exc \in IterationCalls \cup {"none"}) =>
        \A i \in 1..Len(bot_docs) : stats[i].started = bot_docs[i].activitylevel.val

\* C2: no exception of a call made inside an iteration leaves run_bots_once:
\* the cycle returns, and a log line names the failure.
C2_NoErrorEscapes ==
    exc \in IterationCalls =>
        /\ pc # "raised"
        /\ \E k \in 1..Len(logs) : logs[k].who = exc

\* C4: whatever the interleaving of the cycle's likes and the Feed page's, the
\* like count of no post and of no comment ever goes down.
C4_LikesNeverDecrease ==
    [][/\ \A p \in DOMAIN posts : posts'[p].likes >= posts[p].likes
       /\ \A c \in DOMAIN comments : comments'[c].likes >= comments[c].likes]_vars

\* The iterations of the bots of type t that are over.
RECURSIVE DoneBy(_, _)
DoneBy(t, i) ==
    IF i = 0 THEN 0
    ELSE (IF bot_docs[i].bottype = t THEN stats[i].done ELSE 0) + DoneBy(t, i - 1)

\* p is the one post of the one important user.
SoleTarget(p) ==
    /\ Cardinality(Important) = 1
    /\ {q \in DOMAIN posts : posts[q].userid \in Important} = {p}

\* C3: with one important user who owns one post, and no other writer, the
\* post's likes after N reaction iterations are its likes at the start of the
\* cycle plus N; and no post's likes are lower than when the iteration started.
C3_ReactionsAddUp ==
    /\ \A p \in DOMAIN snap0.posts :
          (pc \in {"loop", "returned"} /\ SoleTarget(p)) =>
              posts[p].likes = snap0.posts[p].likes + DoneBy("reaction", Len(bot_docs))
    /\ \A p \in DOMAIN snapI.posts : posts[p].likes >= snapI.posts[p].likes

\* Two reaction iterations in a row have liked the one target post.
C3_Witness ==
    /\ pc = "returned"
    /\ DoneBy("reaction", Len(bot_docs)) >= 2
    /\ \E p \in DOMAIN snap0.posts :
          SoleTarget(p) /\ posts[p].likes = snap0.posts[p].likes + 2

\* The last iteration was a reaction iteration that chose a post, and is over.
ReactionOver ==
    /\ pc \in {"loop", "returned"}
    /\ Len(logs) > snapI.nlogs
    /\ logs[snapI.nlogs + 1].msg = "liked post"

\* The comments on post p whose author is a bot of the store or important.
LikedComments(p) ==
    {c \in DOMAIN comments :
        comments[c].postid = p /\ comments[c].userid \in StoreBotIds \cup Important}

\* C5: a reaction iteration that chose post p has added one like to p and to
\* each comment on p by a bot or an important user, has written one log line
\* for each of these comments, and has left every other comment as it was.
C5_ReactionLikesComments ==
    ReactionOver =>
        LET p == logs[snapI.nlogs + 1].ref
            lines == (snapI.nlogs + 2)..Len(logs)
        IN  /\ posts[p].likes = snapI.posts[p].likes + 1
            /\ DOMAIN comments = DOMAIN snapI.comments
            /\ \A c \in DOMAIN comments :
                  comments[c].likes =
                      snapI.comments[c].likes + (IF c \in LikedComments(p) THEN 1 ELSE 0)
            /\ \A k \in lines : logs[k].msg = "liked comment"
            /\ {logs[k].ref : k \in lines} = LikedComments(p)
            /\ Cardinality(lines) = Cardinality(LikedComments(p))

\* A reaction iteration is over whose post has a comment it liked and a
\* comment by an ordinary user.
C5_Witness ==
    /\ ReactionOver
    /\ LET p == logs[snapI.nlogs + 1].ref
       IN  /\ LikedComments(p) # {}
           /\ \E c \in DOMAIN comments :
                 comments[c].postid = p /\ c \notin LikedComments(p)

\* The posts the cycle created, and those among them of author b.
NewPosts == SubSeq(posts, Len(snap0.posts) + 1, Len(posts))
PostsBy(b) == LET By(d) == d.userid = b IN SelectSeq(NewPosts, By)
DraftsBy(b) == LET By(d) == d.by = b IN SelectSeq(drafts, By)

\* The first 500 characters of a text.
First500(text) ==
    [j \in 1..(IF Len(text) > MAX_CONTENT THEN MAX_CONTENT ELSE Len(text)) |-> text[j]]

\* The cycle is over, bot i is a post bot, every important user has a post,
\* every one of its iterations was given a title and a content, and no image.
PostBotServed(i) ==
    /\ pc = "returned"
    /\ bot_docs[i].bottype = "post"
    /\ Important # {}
    /\ \A u \in Important : \E q \in DOMAIN posts : posts[q].userid = u
    /\ Len(DraftsBy(bot_docs[i].id)) = bot_docs[i].activitylevel.val
    /\ \A k \in 1..Len(drafts) : drafts[k].image = "none"

\* C6 as the claim has it: the n posts carry the generated content as it is.
C6_PostsAsGenerated ==
    \A i \in 1..Len(bot_docs) :
        PostBotServed(i) =>
            LET b == bot_docs[i].id IN
            /\ Len(PostsBy(b)) = bot_docs[i].activitylevel.val
            /\ \A k \in 1..Len(PostsBy(b)) :
                  PostsBy(b)[k] = [title |-> DraftsBy(b)[k].title,
                                   content |-> DraftsBy(b)[k].content,
                                   imageurl |-> None, likes |-> 0, userid |-> b]

\* C6: a post bot of activitylevel n that is given a title and a content in
\* every iteration, and no image, creates exactly n posts, each of the bot's
\* id, the generated title, the first 500 characters of the generated content,
\* 0 likes and no image reference.
C6_PostsCreated ==
    \A i \in 1..Len(bot_docs) :
        PostBotServed(i) =>
            LET b == bot_docs[i].id IN
            /\ Len(PostsBy(b)) = bot_docs[i].activitylevel.val
            /\ \A k \in 1..Len(PostsBy(b)) :
                  PostsBy(b)[k] = [title |-> DraftsBy(b)[k].title,
                                   content |-> First500(DraftsBy(b)[k].content),
                                   imageurl |-> None, likes |-> 0, userid |-> b]

\* A post bot of activitylevel 2 has created its two posts.
C6_Witness ==
    \E i \in 1..Len(bot_docs) :
        /\ PostBotServed(i)
        /\ bot_docs[i].activitylevel.val = 2
        /\ Len(PostsBy(bot_docs[i].id)) = 2

\* run_bots_once has resolved the important people and is at or past its loops.
InLoops == pc \notin {"idle", "list_bots", "important"} /\ exc \notin {"list_documents", "find_important_people"}

C8_ZeroActivity ==
    \A i \in 1..Len(bot_docs) :
        bot_docs[i].activitylevel = IntLevel(0) =>
            /\ stats[i] = ZeroStats
            /\ LogsOf(bot_docs[i].id) = {}

\* A cycle is over in which a bot of activitylevel 0 stood before a bot that
\* has written to the store.
C8_Witness ==
    /\ pc = "returned"
    /\ Len(bot_docs) = 2
    /\ bot_docs[1].activitylevel = IntLevel(0)
    /\ bot_docs[1].bottype \in KnownTypes
    /\ stats[2].writes > 0

\* C9: a bot whose bottype is none of post, comment, reaction writes exactly
\* one log line in each of its iterations, activitylevel lines in all, and
\* makes no store write, no store read and no generator call.
C9_UnknownType ==
    \A i \in 1..Len(bot_docs) :
        bot_docs[i].bottype \notin KnownTypes =>
            /\ Cardinality(LogsOf(bot_docs[i].id)) = stats[i].started
            /\ \A k \in LogsOf(bot_docs[i].id) : logs[k].msg = "has unknown type"
            /\ stats[i].reads = 0 /\ stats[i].writes = 0 /\ stats[i].gens = 0
            /\ stats[i].done = stats[i].started
            /\ pc = "returned" => stats[i].started = bot_docs[i].activitylevel.val
            /\ (pc \in {"loop", "returned"} /\ snapI # NoSnap
                  /\ Len(logs) > snapI.nlogs /\ logs[Len(logs)].bot = bot_docs[i].id) =>
                  /\ posts = snapI.posts /\ comments = snapI.comments
                  /\ Len(logs) = snapI.nlogs + 1

\* A bot of an unknown type has made two iterations and the cycle is over.
C9_Witness ==
    /\ pc = "returned"
    /\ \E i \in 1..Len(bot_docs) :
          /\ bot_docs[i].bottype \notin KnownTypes
          /\ bot_docs[i].activitylevel.val = 2
          /\ Cardinality(LogsOf(bot_docs[i].id)) = 2

\* C10: create_post stores the first 500 characters of a content longer than
\* 500 characters and stores a content of 500 characters or fewer as it is;
\* no post it created has a content longer than 500 characters.
C10_ContentTruncated ==
    /\ Len(posts) = Len(drafts)
    /\ \A k \in 1..Len(posts) :
          LET given == drafts[k].content
              stored == posts[k].content
          IN  /\ Len(given) > 500 =>
                    /\ Len(stored) = 500
                    /\ \A j \in 1..500 : stored[j] = given[j]
              /\ Len(given) <= 500 => stored = given
              /\ Len(stored) <= 500

\* A content of 600 characters was published, and one of exactly 500.
C10_Witness ==
    /\ \E k \in 1..Len(posts) : Len(drafts[k].content) = 600 /\ Len(posts[k].content) = 500
    /\ \E k \in 1..Len(posts) : Len(drafts[k].content) = 500 /\ posts[k].content = drafts[k].content

\* The iterations the dispatcher owes a bot: none for a level that is missing,
\* null, no number or negative, the level otherwise.
Owed(level) ==
    IF level.kind \in {"missing", "null", "text"} THEN 0
    ELSE IF level.val < 0 THEN 0 ELSE level.val

\* C11: a bot whose activitylevel is missing, not a number or negative gets no
\* iteration; any other bot gets exactly activitylevel iterations by the time
\* the cycle returns, and never more.
C11_ActivityCoerced ==
    \A i \in 1..Len(bot_docs) :
        /\ stats[i].started <= Owed(bot_docs[i].activitylevel)
        /\ pc = "returned" => stats[i].started = Owed(bot_docs[i].activitylevel)
        /\ Owed(bot_docs[i].activitylevel) = 0 =>
              stats[i] = ZeroStats /\ LogsOf(bot_docs[i].id) = {}

\* A cycle is over in which the first bot's level was coerced to 0 and the
\* second bot made its two iterations.
C11_Witness ==
    /\ pc = "returned"
    /\ Len(bot_docs) = 2
    /\ bot_docs[1].activitylevel \in {IntLevel(-1), OtherLevel("missing"),
                                      OtherLevel("null"), OtherLevel("text")}
    /\ bot_docs[2].activitylevel = IntLevel(2)
    /\ stats[1].started = 0 /\ stats[2].started = 2

\* The users with popularityscore 1 among us.
ImportantAmong(us) == {u \in DOMAIN us : us[u] = 1}

could_not_generate_post == "could not generate a post via ChatGPT."

\* The log lines of bot b that say m.
LogsSaying(b, m) == {k \in LogsOf(b) : logs[k].msg = m}

\* C13: a post iteration whose generation returned none writes the one log
\* line, creates no post, writes nothing to the store and returns to the
\* loop. With no API key every generation returns none: each generator call
\* of a post bot ends in that log line, no call raises and no post is created.
C13_GenerationUnavailable ==
    /\ (Len(logs) > snapI.nlogs /\ logs[snapI.nlogs + 1].msg = could_not_generate_post) =>
          /\ pc \in {"loop", "returned"}
          /\ Len(logs) = snapI.nlogs + 1
          /\ posts = snapI.posts /\ comments = snapI.comments
    /\ ~OPENAI_API_KEY =>
          /\ pc # "create_post"
          /\ exc \notin {"generate_post_using_chatgpt", "call_openai_image", "create_post"}
          /\ \A i \in 1..Len(bot_docs) :
                bot_docs[i].bottype = "post" =>
                    /\ stats[i].writes = 0
                    /\ Len(PostsBy(bot_docs[i].id)) = 0
                    /\ stats[i].gens =
                          Cardinality(LogsSaying(bot_docs[i].id, could_not_generate_post))

\* With no API key, a post bot has made two iterations that came to the
\* generation, and the cycle is over.
C13_Witness ==
    /\ ~OPENAI_API_KEY
    /\ pc = "returned"
    /\ \E i \in 1..Len(bot_docs) :
          /\ bot_docs[i].bottype = "post"
          /\ stats[i].gens = 2
          /\ Cardinality(LogsSaying(bot_docs[i].id, "could not generate a post via ChatGPT.")) = 2

could_not_generate_comment == "could not generate a comment via ChatGPT."

\* The last iteration is over and the first log line it wrote says m.
IterationSaid(m) ==
    /\ pc \in {"loop", "returned"}
    /\ Len(logs) > snapI.nlogs
    /\ logs[snapI.nlogs + 1].msg = m

\* C14: a comment iteration that was given no comment, or an empty one, logs
\* "could not generate" and creates no comment; one that was given a comment
\* creates exactly one comment, on the selected post, of the bot's id, with
\* 0 likes and the generated text, and logs it.
C14_CommentIteration ==
    /\ pc = "create_comment" => pending.content # Content(0)
    /\ IterationSaid(could_not_generate_comment) =>
          /\ Len(logs) = snapI.nlogs + 1
          /\ comments = snapI.comments /\ posts = snapI.posts
    /\ IterationSaid("commented on post") =>
          LET line == logs[snapI.nlogs + 1]
              n == Len(snapI.comments)
          IN  /\ Len(logs) = snapI.nlogs + 1
              /\ posts = snapI.posts
              /\ Len(comments) = n + 1
              /\ SubSeq(comments, 1, n) = snapI.comments
              /\ comments[n + 1].postid = line.ref
              /\ line.ref \in DOMAIN posts
              /\ posts[line.ref].userid \in Important
              /\ comments[n + 1].userid = line.bot
              /\ comments[n + 1].likes = 0
              /\ comments[n + 1].content \in GenComments \ {Content(0)}
    /\ pc # "idle" =>
          Len(comments) - Len(snap0.comments) =
              Cardinality({k \in 1..Len(logs) : logs[k].msg = "commented on post"})

\* A comment bot's first iteration could not generate and its second has
\* created a comment.
C14_Witness ==
    /\ IterationSaid("commented on post")
    /\ Len(comments) = Len(snap0.comments) + 1
    /\ \E k \in 1..snapI.nlogs :
          /\ logs[k].msg = "could not generate a comment via ChatGPT."
          /\ logs[k].bot = logs[snapI.nlogs + 1].bot

\* The draft of the post iteration that is under way or was the last to
\* create a post had a content, and its image was not generated or not
\* uploaded.
ImageFailed ==
    /\ drafts # <<>>
    /\ drafts[Len(drafts)].content # Content(0)
    /\ drafts[Len(drafts)].image \in {"none", "upload failed"}

\* C15: in a post iteration with a generated content, a failure of the image
\* generation or of the upload is logged and does not abort the iteration:
\* create_post is called with no image reference, the post is created without
\* one, and the last log line of the iteration reports the new post.
C15_ImageFailureTolerated ==
    /\ exc # "call_openai_image"
    /\ (pc = "create_post" /\ ImageFailed) =>
          /\ pending.imageurl = None
          /\ Len(logs) = snapI.nlogs + 1
    /\ (pc \in {"loop", "returned"} /\ Len(posts) = Len(snapI.posts) + 1 /\ ImageFailed) =>
          /\ posts[Len(posts)].imageurl = None
          /\ Len(logs) = snapI.nlogs + 2
          /\ logs[Len(logs)].msg = "posted a new message titled"

\* The likes of the posts and comments of author a, summed.
RECURSIVE SumOver(_, _, _)
SumOver(docs, a, S) ==
    IF S = {} THEN 0
    ELSE LET k == CHOOSE k \in S : TRUE
         IN  (IF docs[k].userid = a THEN docs[k].likes ELSE 0) + SumOver(docs, a, S \ {k})
Popularity(a) == SumOver(posts, a, DOMAIN posts) + SumOver(comments, a, DOMAIN comments)

\* The authors of the posts and comments of the store.
Authors == {posts[k].userid : k \in DOMAIN posts} \cup
           {comments[k].userid : k \in DOMAIN comments}

\* C16: the snapshot holds, for each author of a post or a comment of the
\* store, the sum of the likes of the author's posts and comments, and no
\* other key; computing it leaves the store as it was.
C16_PopularitySnapshot ==
    [][totals' # totals =>
          /\ store' = store
          /\ run_popularity_history' # run_popularity_history =>
                LET entry == run_popularity_history'[Len(run_popularity_history')]
                IN  /\ DOMAIN entry.totals = Authors
                    /\ \A a \in Authors : entry.totals[a] = Popularity(a)]_vars

\* A snapshot was taken of a store in which one author has a post and a
\* comment that both have likes, and another author has a post.
C16_Witness ==
    /\ Len(run_popularity_history) = 1
    /\ Cardinality(Authors) >= 2
    /\ \E p \in DOMAIN posts, c \in DOMAIN comments :
          /\ posts[p].userid = comments[c].userid
          /\ posts[p].likes > 0 /\ comments[c].likes > 0
          /\ run_popularity_history[1].totals[posts[p].userid] >= 2

\* C17: the cycle with a snapshot sink calls the sink after each bot: when the
\* cycle is over the sink was called once for every bot processed, so at
\* least once when there is a bot; and each call comes when the bots before
\* it are over and gives the likes of the store as those bots left it.
C17_SnapshotAfterEachBot ==
    [][/\ (pc' = "returned" /\ ~SnapshotDue') =>
              /\ Len(run_popularity_history') = Len(bot_docs')
              /\ bot_docs' # <<>> => Len(run_popularity_history') >= 1
       /\ run_popularity_history' # run_popularity_history =>
              LET n == Len(run_popularity_history')
              IN  /\ n = Len(run_popularity_history) + 1
                  /\ n = BotsDone
                  /\ \A i \in 1..n : stats[i].started = bot_docs[i].activitylevel.val
                  /\ DOMAIN run_popularity_history'[n].totals = Authors
                  /\ \A a \in Authors : run_popularity_history'[n].totals[a] = Popularity(a)
      ]_vars

\* The cycle of a reaction bot and a second bot is over; the first snapshot
\* shows the like the reaction bot gave, and the second was taken after it.
C17_Witness ==
    /\ pc = "returned" /\ ~SnapshotDue
    /\ Len(bot_docs) = 2
    /\ bot_docs[1].bottype = "reaction"
    /\ Len(run_popularity_history) = 2
    /\ run_popularity_history[1].totals["u1"] > MaxInitLikes
    /\ run_popularity_history[2].step = 1

\* C18: no step of the engine deletes an entity: every user, bot, post and
\* comment of the store before the step is in the store after it, as the
\* document it was but for its likes, so that over one cycle and over the
\* cycles that follow it the posts and the comments only grow.
C18_NothingDeleted ==
    [][/\ DOMAIN users \subseteq DOMAIN users'
       /\ bots' = bots
       /\ Len(posts') >= Len(posts) /\ Len(comments') >= Len(comments)
       /\ \A k \in DOMAIN posts :
             [posts'[k] EXCEPT !.likes = 0] = [posts[k] EXCEPT !.likes = 0]
       /\ \A k \in DOMAIN comments :
             [comments'[k] EXCEPT !.likes = 0] = [comments[k] EXCEPT !.likes = 0]
      ]_vars

\* A second cycle is over: it found the comment the first cycle had added to
\* a store without comments, and added a post.
C18_Witness ==
    /\ pc = "returned"
    /\ Len(snap0.comments) = 1
    /\ snap0.comments[1].likes = 0
    /\ snap0.comments[1].userid \in StoreBotIds
    /\ Len(posts) > Len(snap0.posts)

\* The likes of the documents docs, in store order.
LikesOf(docs) == [k \in DOMAIN docs |-> docs[k].likes]

\* The step writes to the store during an iteration of a bot of type t.
WriteOf(t) ==
    /\ store' # store
    /\ bi \in DOMAIN bot_docs
    /\ Bot.bottype = t

\* C19: in a cycle only a reaction iteration changes likes. A store write of
\* a post iteration, or of a comment iteration, leaves every post and comment
\* there was as it was, likes included, and adds one post, or one comment,
\* with 0 likes; and no such iteration writes twice.
C19_OnlyReactionsLike ==
    [][/\ store' # store => \E t \in KnownTypes : WriteOf(t)
       /\ (\E k \in DOMAIN posts : posts'[k].likes # posts[k].likes) => WriteOf("reaction")
       /\ (\E k \in DOMAIN comments : comments'[k].likes # comments[k].likes) =>
              WriteOf("reaction")
       /\ WriteOf("post") =>
              /\ comments' = comments
              /\ Len(posts') = Len(posts) + 1
              /\ SubSeq(posts', 1, Len(posts)) = posts
              /\ posts'[Len(posts')].likes = 0
       /\ WriteOf("comment") =>
              /\ posts' = posts
              /\ Len(comments') = Len(comments) + 1
              /\ SubSeq(comments', 1, Len(comments)) = comments
              /\ comments'[Len(comments')].likes = 0
       /\ \A i \in DOMAIN stats' :
              bot_docs'[i].bottype \in {"post", "comment"} =>
                  stats'[i].writes <= stats'[i].started
      ]_vars

\* A cycle of a post bot and a comment bot is over: a post and a comment were
\* added, with 0 likes, to a store of liked posts whose likes are as they were.
C19_Witness ==
    /\ pc = "returned"
    /\ \A i \in DOMAIN bot_docs : bot_docs[i].bottype \in {"post", "comment"}
    /\ Len(posts) = Len(snap0.posts) + 1
    /\ Len(comments) = Len(snap0.comments) + 1
    /\ \E k \in DOMAIN snap0.posts : snap0.posts[k].likes > 0
    /\ LikesOf(SubSeq(posts, 1, Len(snap0.posts))) = LikesOf(snap0.posts)
    /\ posts[Len(posts)].likes = 0 /\ comments[Len(comments)].likes = 0

\* The sequence a is the sequence b, or the start of it.
IsPrefix(a, b) == Len(a) <= Len(b) /\ SubSeq(b, 1, Len(a)) = a

\* C20: during a cycle the log is only appended to: after each step it is the
\* log before the step with at most new lines at its end, so that it extends
\* the log of every earlier step of the cycle. And the cycle does not depend
\* on what the log held before: its first step leaves the store as it is and
\* starts the dispatcher in the same state whatever the log held.
C20_LogAppendOnly ==
    [][/\ pc # "idle" => IsPrefix(logs, logs')
       /\ pc # "idle" => Len(logs') >= snapI.nlogs
       /\ (pc = "idle" /\ pc' # "idle") =>
              /\ store' = store
              /\ logs' = <<>>
              /\ <<pc', exc', bot_docs', important_people', bot_ids', bi', it'>> =
                     <<"list_bots", "none", <<>>, {}, {}, 0, 0>>
              /\ <<post', pending', todo'>> = <<NoPost, NoPending, <<>> >>
      ]_vars

\* A second cycle is over, with two log lines of its own; the first cycle had
\* logged the post it added.
C20_Witness ==
    /\ pc = "returned"
    /\ Len(snap0.posts) = 2
    /\ snap0.posts[2].userid \in StoreBotIds
    /\ Len(logs) >= 2

\* The loops of run_bots_once are running.
InCycle == pc \notin {"idle", "list_bots", "important", "returned", "raised"}

EngineHoldsPost(p, n) == pc = "like_post" /\ post.id = p /\ post.likes = n
FeedHoldsPost(p, n) == feed.kind = "post" /\ feed.id = p /\ feed.likes = n
EngineHoldsComment(c, n) ==
    pc = "like_comments" /\ Head(todo).id = c /\ Head(todo).likes = n
FeedHoldsComment(c, n) == feed.kind = "comment" /\ feed.id = c /\ feed.likes = n

\* C22: a like is a read and then a write of the count read plus 1, whatever
\* the store holds by then. So when the cycle and the Feed page have both read
\* the n likes of a post, or of a comment, before either writes, the first
\* write leaves n + 1, and the second, from the n it still holds, n + 1 again:
\* two likes and a count of n + 1.
C22_LostUpdate ==
    [][/\ \A p \in DOMAIN posts : \A n \in 0..(MaxInitLikes + MaxIters + MaxFeedLikes) :
             /\ (EngineHoldsPost(p, n) /\ feed' = feed /\ posts' # posts) =>
                    posts'[p].likes = n + 1
             /\ (FeedHoldsPost(p, n) /\ feed' # feed /\ posts' # posts) =>
                    posts'[p].likes = n + 1
             /\ (EngineHoldsPost(p, n) /\ FeedHoldsPost(p, n) /\ posts' # posts) =>
                    /\ posts'[p].likes = n + 1
                    /\ EngineHoldsPost(p, n)' \/ FeedHoldsPost(p, n)'
       /\ \A c \in DOMAIN comments : \A n \in 0..(MaxInitLikes + MaxIters + MaxFeedLikes) :
             /\ (EngineHoldsComment(c, n) /\ feed' = feed /\ comments' # comments) =>
                    comments'[c].likes = n + 1
             /\ (FeedHoldsComment(c, n) /\ feed' # feed /\ comments' # comments) =>
                    comments'[c].likes = n + 1
             /\ (EngineHoldsComment(c, n) /\ FeedHoldsComment(c, n)
                     /\ comments' # comments) =>
                    /\ comments'[c].likes = n + 1
                    /\ EngineHoldsComment(c, n)' \/ FeedHoldsComment(c, n)'
      ]_vars

\* The cycle and the Feed page had both read the likes of a post; the Feed
\* page has written and the cycle is about to write the count the post
\* already holds.
C22_Witness ==
    /\ feedLikes >= 1
    /\ \E p \in DOMAIN posts :
          /\ EngineHoldsPost(p, snap0.posts[p].likes)
          /\ posts[p].likes = snap0.posts[p].likes + 1

\* The step is the start of an iteration of a post, comment or reaction bot
\* that chose the important user u for its target and was given u's posts.
ChoseTarget(u) ==
    /\ Iterating(KnownTypes)
    /\ important_people # {}
    /\ stats' # stats
    /\ pc' # "raised"
    /\ sel'.target = u

\* C23: an iteration of a post, comment or reaction bot whose target has no
\* post in the store ends in that step: one log line, saying so and naming
\* the target, no generator call, no store write, and back to the loops.
C23_TargetWithoutPosts ==
    [][\A u \in UserIds :
          (ChoseTarget(u) /\ \A k \in DOMAIN posts : posts[k].userid # u) =>
              /\ Len(logs') = Len(logs) + 1
              /\ SubSeq(logs', 1, Len(logs)) = logs
              /\ logs'[Len(logs')] = Log(Bot.id, no_posts_msg(Bot.bottype), 0, u)
              /\ store' = store
              /\ drafts' = drafts
              /\ stats'[bi] = [stats[bi] EXCEPT !.started = @ + 1, !.done = @ + 1,
                                                !.reads = @ + 1]
              /\ pc' \in {"loop", "returned"}
              /\ post' = NoPost /\ pending' = NoPending /\ todo' = <<>>
      ]_vars

\* A cycle of a post bot and a reaction bot is over in a store with posts: each
\* chose an important user without posts, and the two log lines are all there is.
C23_Witness ==
    /\ pc = "returned"
    /\ snap0.posts # <<>>
    /\ posts = snap0.posts /\ comments = snap0.comments
    /\ Len(logs) = 2
    /\ logs[1].msg = no_posts_msg("post")
    /\ logs[2].msg = no_posts_msg("reaction")
    /\ \A i \in 1..2 : stats[i] = [ZeroStats EXCEPT !.started = 1, !.done = 1, !.reads = 1]

\* The author of post p is one of the important users the cycle resolved, and
\* the target the iteration chose.
OfTarget(p) ==
    /\ p \in DOMAIN posts
    /\ posts[p].userid \in important_people
    /\ posts[p].userid = sel.target

\* C24: the post a reaction iteration likes, and the post a comment iteration
\* comments on, is a post of the target, one of the important users the cycle
\* resolved: so is the post the iteration holds from its choice on, the post
\* whose likes the step changes, and the post the new comment names.
C24_TargetsAreImportant ==
    [][/\ pc \in {"like_post", "create_comment"} => OfTarget(post.id)
       /\ (pc = "like_post" /\ posts' # posts) =>
              \A p \in DOMAIN posts : posts'[p].likes # posts[p].likes => OfTarget(p)
       /\ (pc = "create_comment" /\ comments' # comments) =>
              OfTarget(comments'[Len(comments')].postid)
       /\ \A k \in DOMAIN logs' \ DOMAIN logs :
              logs'[k].msg \in {"liked post", "commented on post"} => OfTarget(logs'[k].ref)
      ]_vars

\* A cycle of a reaction bot and a comment bot is over in a store that has a
\* post of a user who is not important: a post was liked and a post was
\* commented on.
C24_Witness ==
    /\ pc = "returned"
    /\ \E k \in DOMAIN posts : posts[k].userid \notin important_people
    /\ \E k \in DOMAIN logs : logs[k].msg = "liked post"
    /\ \E k \in DOMAIN logs : logs[k].msg = "commented on post"
    /\ Len(comments) > Len(snap0.comments)

\* C25: the postid of every comment of the store is the id of a post of the
\* store, whether the cycle or the Feed page wrote the comment; and so is the
\* id run_comment_bot is about to give create_comment.
C25_CommentsOnPosts ==
    /\ \A c \in DOMAIN comments : comments[c].postid \in DOMAIN posts
    /\ pc = "create_comment" => post.id \in DOMAIN posts

\* The cycle is over: it added a comment to those of the store, and so did
\* the Feed page.
C25_Witness ==
    /\ pc = "returned"
    /\ \E k \in DOMAIN logs : logs[k].msg = "commented on post"
    /\ \E c \in DOMAIN comments : comments[c].content = Content(3)
    /\ \E c \in DOMAIN comments : comments[c].userid \in StoreBotIds /\ comments[c].likes = 0

\* The place in bot_docs of the bot a log line is about.
BotIndex(b) == CHOOSE i \in DOMAIN bot_docs : bot_docs[i].id = b

\* C26: the bots are served one after another in the order list_documents
\* gave them, and the iterations of a bot one after another: the log lines
\* of a bot come before those of every bot after it; the bots before the
\* one being served have made all their iterations and those after it none;
\* and an iteration starts with no call of the iteration before left to make.
C26_SequentialOrder ==
    /\ \A j, k \in DOMAIN logs :
          (j < k /\ logs[j].bot # "" /\ logs[k].bot # "") =>
              BotIndex(logs[j].bot) <= BotIndex(logs[k].bot)
    /\ pc \notin {"idle", "list_bots", "important", "raised"} =>
          \A i \in DOMAIN bot_docs :
              /\ i < bi => /\ stats[i].done = activity_count(bot_docs[i])
                           /\ stats[i].started = stats[i].done
              /\ i > bi => stats[i].started = 0 /\ LogsOf(bot_docs[i].id) = {}
              /\ i = bi => /\ stats[i].done = it
                           /\ stats[i].started = it + (IF pc = "loop" THEN 0 ELSE 1)
    /\ pc = "loop" => post = NoPost /\ pending = NoPending /\ todo = <<>>

\* The cycle of two bots is over: the first wrote to the store and has the
\* first log line, the second has the last of three or more.
C26_Witness ==
    /\ pc = "returned"
    /\ Len(bot_docs) = 2
    /\ stats[1].writes >= 1 /\ stats[2].writes >= 1
    /\ Len(logs) >= 3
    /\ logs[1].bot = bot_docs[1].id
    /\ logs[Len(logs)].bot = bot_docs[2].id

\* compute_popularity_snapshot of the posts ps and the comments cs.
compute_popularity_snapshot(ps, cs) == sum_likes(sum_likes(<<>>, ps), cs)

\* The totals of a snapshot, summed over its authors.
RECURSIVE SumTotals(_, _)
SumTotals(t, S) ==
    IF S = {} THEN 0
    ELSE LET a == CHOOSE a \in S : TRUE IN t[a] + SumTotals(t, S \ {a})
TotalOf(t) == SumTotals(t, DOMAIN t)

\* The log lines of the cycle that tell of a like.
LikeLogs == {k \in DOMAIN logs : logs[k].msg \in {"liked post", "liked comment"}}

\* C27: in a cycle with no other writer, over posts and comments that all
\* have an author, the totals of the snapshot of the store add up to those of
\* the snapshot of the store the cycle started from plus the number of
\* "liked post" and "liked comment" lines in the log, at the end of the cycle
\* and after each of its steps.
C27_SnapshotSum ==
    pc # "idle" =>
        TotalOf(compute_popularity_snapshot(posts, comments)) =
            TotalOf(compute_popularity_snapshot(snap0.posts, snap0.comments))
                + Cardinality(LikeLogs)

\* A cycle is over that liked a post and a comment and added a post or a
\* comment: the totals went up by 2 or more.
C27_Witness ==
    /\ pc = "returned"
    /\ \E k \in LikeLogs : logs[k].msg = "liked post"
    /\ \E k \in LikeLogs : logs[k].msg = "liked comment"
    /\ Len(posts) + Len(comments) > Len(snap0.posts) + Len(snap0.comments)
    /\ TotalOf(compute_popularity_snapshot(posts, comments)) >=
           TotalOf(compute_popularity_snapshot(snap0.posts, snap0.comments)) + 2

\* The one log line of a cycle that finds no bot.
no_bots_found == Log("", "No bots found in the database.", 0, "")

====
